---- MODULE Spec2Model ----
(***************************************************************************)
(* Model of inidirici.py: a depth-bounded recursive site mirror.  One       *)
(* control thread runs main() and the recursive parse_and_download(); T    *)
(* worker threads run download_worker() on the shared download_queue.      *)
(*                                                                         *)
(* Strings are sequences of tokens: the punctuation the code inspects      *)
(* ("/", ":", "?", "#", ".", "\\", "_") is one token each, a run of other   *)
(* characters is one word token.                                           *)
(***************************************************************************)
EXTENDS Integers, Sequences, FiniteSets, TLC

\* ------------------------------------------------------------------ bounds
MaxThreads == 2
MaxDepth   == 1

\* ------------------------------------------------------- string utilities
Tail0(s, i) == SubSeq(s, i, Len(s))

FirstIn(s, S) ==
    IF \E i \in 1..Len(s) : s[i] \in S
    THEN CHOOSE i \in 1..Len(s) : s[i] \in S /\ \A j \in 1..(i-1) : s[j] \notin S
    ELSE Len(s) + 1

LastIn(s, S) ==
    IF \E i \in 1..Len(s) : s[i] \in S
    THEN CHOOSE i \in 1..Len(s) : s[i] \in S /\ \A j \in (i+1)..Len(s) : s[j] \notin S
    ELSE 0

\* str.lower() on the word tokens the model uses
Lower(t) ==
    CASE t = "PNG" -> "png"
      [] t = "JPG" -> "jpg"
      [] OTHER -> t

LowerStr(s) == [i \in 1..Len(s) |-> Lower(s[i])]

\* str.lstrip('/')
LStripSlash(s) ==
    LET k == FirstIn(s, {t \in {s[i] : i \in 1..Len(s)} : t # "/"})
    IN  Tail0(s, k)

\* str.endswith('/')
EndsWithSlash(s) == Len(s) > 0 /\ s[Len(s)] = "/"

\* ----------------------------------------------------------- urllib.parse
Punct == {"/", ":", "?", "#"}

\* the part of s before, and after, the first occurrence of token t
Before(s, t) == SubSeq(s, 1, FirstIn(s, {t}) - 1)
After(s, t)  == Tail0(s, FirstIn(s, {t}) + 1)

HasScheme(u) == Len(u) >= 2 /\ u[2] = ":" /\ u[1] \notin Punct
SchemeOf(u)  == IF HasScheme(u) THEN u[1] ELSE ""
AfterScheme(u) == IF HasScheme(u) THEN Tail0(u, 3) ELSE u

\* r is a url without its scheme: "//netloc" followed by the rest
HasNetloc(r) == Len(r) >= 2 /\ r[1] = "/" /\ r[2] = "/"
NetlocOf(r) ==
    IF HasNetloc(r)
    THEN SubSeq(r, 3, FirstIn(Tail0(r, 3), {"/", "?", "#"}) + 1)
    ELSE <<>>
AfterNetloc(r) ==
    IF HasNetloc(r)
    THEN Tail0(r, FirstIn(Tail0(r, 3), {"/", "?", "#"}) + 2)
    ELSE r

\* urlparse(url): scheme, netloc, path, query, fragment
urlparse(u) ==
    LET rest == AfterNetloc(AfterScheme(u))
    IN  [scheme   |-> SchemeOf(u),
         netloc   |-> NetlocOf(AfterScheme(u)),
         path     |-> Before(Before(rest, "#"), "?"),
         query    |-> After(Before(rest, "#"), "?"),
         fragment |-> After(rest, "#")]

\* urljoin(base, url) for the reference shapes the model feeds it:
\* a reference with a scheme is returned as is, a network-path reference
\* takes the base's scheme, an absolute path takes scheme and host, and a
\* relative path replaces the last segment of the base path.
urljoin(base, ref) ==
    LET b    == urlparse(base)
        r    == urlparse(ref)
        root == <<b.scheme, ":", "/", "/">> \o b.netloc
        dir  == SubSeq(b.path, 1, LastIn(b.path, {"/"}))
    IN  IF r.scheme # "" THEN ref
        ELSE IF r.netloc # <<>> THEN <<b.scheme, ":">> \o ref
        ELSE IF Len(ref) > 0 /\ ref[1] = "/" THEN root \o ref
        ELSE root \o (IF dir = <<>> THEN <<"/">> ELSE dir) \o ref

\* is_valid_url(url)
is_valid_url(u) ==
    LET parsed == urlparse(u)
    IN  parsed.netloc # <<>> /\ parsed.scheme # ""

\* os.path.splitext(path)[1]: from the last dot of the last component,
\* unless that component has only dots before it
splitext_ext(p) ==
    LET sep == LastIn(p, {"/"})
        dot == LastIn(p, {"."})
    IN  IF dot > sep /\ \E k \in (sep+1)..(dot-1) : p[k] # "."
        THEN Tail0(p, dot)
        ELSE <<>>

\* sanitize_filename(filename): re.sub(r'[\\/*?:"<>|]', "_", filename)
InvalidChars == {"\\", "/", "*", "?", ":", "\"", "<", ">", "|"}

sanitize_filename(f) ==
    [i \in 1..Len(f) |-> IF f[i] \in InvalidChars THEN "_" ELSE f[i]]

\* os.path.join(a, b) on a POSIX host
path_join(a, b) ==
    IF Len(b) > 0 /\ b[1] = "/" THEN b
    ELSE IF a = <<>> \/ EndsWithSlash(a) THEN a \o b
    ELSE a \o <<"/">> \o b

\* os.path.dirname(p)
path_dirname(p) ==
    LET i    == LastIn(p, {"/"})
        head == SubSeq(p, 1, i)
        allSl == \A k \in 1..Len(head) : head[k] = "/"
        lastNon == LastIn(head, {t \in {head[k] : k \in 1..Len(head)} : t # "/"})
    IN  IF allSl THEN head ELSE SubSeq(head, 1, lastNon)

RESOURCE_TYPES ==
    { <<".", e>> : e \in {"css", "js", "png", "jpg", "jpeg", "gif", "svg", "woff",
                          "woff2", "ttf", "eot", "otf", "ico", "mp4", "webm",
                          "ogg", "mp3", "wav", "pdf"} }

\* str.split('/') without the empty pieces
RECURSIVE SplitSegs(_)
SplitSegs(p) ==
    IF p = <<>> THEN <<>>
    ELSE LET k == FirstIn(p, {"/"})
         IN  (IF k > 1 THEN <<SubSeq(p, 1, k - 1)>> ELSE <<>>)
             \o SplitSegs(Tail0(p, k + 1))

RECURSIVE JoinSegs(_)
JoinSegs(ss) ==
    IF ss = <<>> THEN <<>>
    ELSE IF Len(ss) = 1 THEN ss[1]
    ELSE ss[1] \o <<"/">> \o JoinSegs(Tail(ss))

\* os.path.relpath(path, start), both relative to the working directory
path_relpath(path, start) ==
    LET sl  == SplitSegs(start)
        pl  == SplitSegs(path)
        m   == IF Len(sl) < Len(pl) THEN Len(sl) ELSE Len(pl)
        i   == IF \E k \in 1..m : sl[k] # pl[k]
               THEN (CHOOSE k \in 1..m : sl[k] # pl[k] /\ \A j \in 1..(k-1) : sl[j] = pl[j]) - 1
               ELSE m
        rel == [k \in 1..(Len(sl) - i) |-> <<".", ".">>] \o SubSeq(pl, i + 1, Len(pl))
    IN  IF rel = <<>> THEN <<".">> ELSE JoinSegs(rel)

\* str.replace('\\', '/')
BackslashToSlash(s) == [i \in 1..Len(s) |-> IF s[i] = "\\" THEN "/" ELSE s[i]]

\* ---------------------------------------------------------------- inputs
\* command lines: the positional url, --cookies, --include-types
SeedOk       == <<"http", ":", "/", "/", "h", "/">>
SeedNoScheme == <<"h", "/", "index">>
SeedNoHost   == <<"http", ":", "/", "/", "/", "p">>
SeedInputs   == {SeedOk, SeedNoScheme, SeedNoHost}

NoArg == [given |-> FALSE, text |-> <<>>]
Arg(t) == [given |-> TRUE, text |-> t]

CookieInputs ==
    { NoArg,
      Arg(<<>>),
      Arg(<<"{", "\"k\"", ":", "\"v\"", "}">>),
      Arg(<<"[", "1", "]">>),
      Arg(<<"k", "=", "v">>) }

\* --include-types text, already split on ','
IncludeInputs ==
    { <<>>,
      << <<".", "jpg">> >>,
      << <<"png">>, <<"pdf">> >> }

SaveDir == <<"out">>

\* json.loads(text): "object", "other" (valid JSON, not an object) or
\* "JSONDecodeError"
json_loads(t) ==
    IF Len(t) >= 2 /\ t[1] = "{" /\ t[Len(t)] = "}" THEN "object"
    ELSE IF Len(t) >= 2 /\ t[1] = "[" /\ t[Len(t)] = "]" THEN "other"
    ELSE "JSONDecodeError"

ThreadInputs == 1..MaxThreads
DepthInputs  == 0..MaxDepth
MaxSizeInputs == {1}

\* content-length values a server may declare, in bytes (absent reads as 0)
MiB == 1024 * 1024
ContentLengths == {0, MiB, MiB + 1}

\* ------------------------------------------------------------- the web
El(tag, name, val, rel) == [tag |-> tag, name |-> name, val |-> val, rel |-> rel]

UrlB   == <<"http", ":", "/", "/", "h", "/", "b", ".", "html">>
UrlC   == <<"http", ":", "/", "/", "h", "/", "c">>
UrlE   == <<"http", ":", "/", "/", "x", "/", "e", ".", "html">>
UrlD   == <<"http", ":", "/", "/", "h", "/", "d", ".", "html">>
UrlPng == <<"http", ":", "/", "/", "h", "/", "a", ".", "png">>

RefPng  == <<"/", "a", ".", "png">>
RefJpg  == <<"s", ".", "JPG">>
RefPhoto == <<"/", "p", ".", "jpg">>
RefJs   == <<"/", "js", "/", "app", ".", "js">>
RefPdf  == <<"/", "d", ".", "pdf">>
RefB    == <<"/", "b", ".", "html">>
RefC    == <<"/", "c">>
RefD    == <<"/", "d", ".", "html">>
RefRoot == <<"/">>
RefMail == <<"mailto", ":", "x">>

NoFollow == <<"nofollow">>

SiteA ==
    [u \in {SeedOk, UrlB, UrlC} |->
        CASE u = SeedOk ->
               << El("a", "href", RefB, NoFollow),
                  El("img", "src", RefPng, <<>>),
                  El("a", "href", RefC, <<>>),
                  El("img", "src", RefPng, <<>>) >>
          [] u = UrlC ->
               << El("a", "href", RefRoot, <<>>),
                  El("a", "href", RefC, <<>>),
                  El("a", "href", RefB, <<>>),
                  El("img", "src", RefPng, <<>>) >>
          [] u = UrlB ->
               << El("a", "href", RefC, <<"noopener">>) >> ]

SiteB ==
    [u \in {SeedOk, UrlB, UrlC, UrlE} |->
        CASE u = SeedOk ->
               << El("a", "href", RefB, <<>>),
                  El("a", "href", RefC, <<"noopener", "nofollow">>),
                  El("script", "src", RefJs, <<>>),
                  El("a", "href", RefMail, <<>>),
                  El("a", "href", UrlE, <<>>),
                  El("img", "alt", <<"logo">>, <<>>) >>
          [] u = UrlB ->
               << El("a", "href", RefC, <<>>),
                  El("link", "href", RefPng, NoFollow),
                  El("a", "href", RefPdf, <<>>) >>
          [] u = UrlC ->
               << El("a", "href", RefB, <<>>),
                  El("img", "src", RefJpg, <<>>) >>
          [] u = UrlE ->
               << El("a", "href", SeedOk, <<>>),
                  El("a", "href", UrlB, <<>>) >> ]

SiteEmpty == [u \in {SeedOk} |-> <<>>]

Sites == {SiteA, SiteB, SiteEmpty}

\* a page D two anchors away from the seed (through C) and three anchors
\* away through B, which the seed links first; and the same site with the
\* seed's two anchors in the other order
SiteD ==
    [u \in {SeedOk, UrlB, UrlC, UrlD} |->
        CASE u = SeedOk ->
               << El("a", "href", RefB, <<>>),
                  El("a", "href", RefC, <<>>),
                  El("img", "src", RefPng, <<>>) >>
          [] u = UrlB -> << El("a", "href", RefC, <<>>) >>
          [] u = UrlC -> << El("a", "href", RefD, <<>>) >>
          [] u = UrlD -> <<>> ]

SiteDRev ==
    [u \in {SeedOk, UrlB, UrlC, UrlD} |->
        CASE u = SeedOk ->
               << El("a", "href", RefC, <<>>),
                  El("a", "href", RefB, <<>>),
                  El("img", "src", RefPng, <<>>) >>
          [] u = UrlB -> << El("a", "href", RefC, <<>>) >>
          [] u = UrlC -> << El("a", "href", RefD, <<>>) >>
          [] u = UrlD -> <<>> ]

\* a seed page with a .jpg and a .png image
SiteC ==
    [u \in {SeedOk} |->
        << El("img", "src", RefPhoto, <<>>),
           El("img", "src", RefPng, <<>>) >> ]

\* the tags dict of parse_and_download, in its iteration order
TagOrder == <<"img", "script", "link", "a", "video", "audio", "source">>

TagAttr(tag) == IF tag \in {"link", "a"} THEN "href" ELSE "src"

\* seed pages of one element: every tag of the tags dict with its own
\* attribute, a reference without extension, with a page extension and with
\* resource extensions, with and without rel="nofollow"
ProbeRefs == {RefC, RefB, RefPng, RefJpg, RefPdf}

ProbeSites ==
    { [u \in {SeedOk} |-> << El(TagOrder[t], TagAttr(TagOrder[t]), r, rel) >>] :
        t \in 1..Len(TagOrder), r \in ProbeRefs, rel \in {<<>>, NoFollow} }

SmallSites == ProbeSites \cup {SiteC}

\* for tag in tags: for resource in soup.find_all(tag): element indices in
\* the order the double loop meets them
IterOrder(doc) ==
    LET Idx == [k \in 1..Len(doc) |-> k]
        ForTag(t) == SelectSeq(Idx, LAMBDA k : doc[k].tag = t)
    IN  ForTag(TagOrder[1]) \o ForTag(TagOrder[2]) \o ForTag(TagOrder[3])
        \o ForTag(TagOrder[4]) \o ForTag(TagOrder[5]) \o ForTag(TagOrder[6])
        \o ForTag(TagOrder[7])

\* ------------------------------------------------------------------ state
VARIABLES
    cli,        \* the parsed command line (args)
    web,        \* what the site serves: url -> elements of the page
    mainpc,     \* position of the control thread in main()
    started,    \* threads started so far (len(threads))
    stopsPut,   \* iterations done of the loop putting None on the queue
    visited,    \* the visited set
    stack,      \* call stack of parse_and_download, innermost frame last
    queue,      \* download_queue: items not yet taken
    unfinished, \* download_queue.unfinished_tasks
    wpc,        \* position of each worker thread
    wtask,      \* the item a worker holds
    wsize,      \* total_size, a local of save_file (0 outside of it)
    fs,         \* files on disk: path -> "partial" | "complete"
    dirs,       \* directories created
    tasks,      \* history: the Download Tasks in order of enqueueing, with
                \* their state (Queued, Running, Saved, Skipped, Failed, Raised)
                \* and the exception that ended them, if one did
    fetchLog,   \* history: the page fetches started, in order
    saveLog,    \* history: the pages written, in order: url and file
    stopsGot    \* history: stop signals each worker has taken

vars == <<cli, web, mainpc, started, stopsPut, visited, stack, queue, unfinished,
          wpc, wtask, wsize, fs, dirs, tasks, fetchLog, saveLog, stopsGot>>

envVars    == <<cli, web>>
mainVars   == <<mainpc, started, stopsPut>>
travVars   == <<visited, stack, fetchLog, saveLog>>
queueVars  == <<queue, unfinished, tasks>>
workerVars == <<wpc, wtask, wsize, stopsGot>>
diskVars   == <<fs, dirs>>

Workers == 1..MaxThreads

None == [kind |-> "None", id |-> 0, url |-> <<>>, save_path |-> <<>>]
Task(id, url, save_path) ==
    [kind |-> "tuple", id |-> id, url |-> url, save_path |-> save_path]

Terminated == {"raised", "returned"}

\* main(): include_types = [f".{ext.strip()}" for ext in ...split(',')]
IncludeTypes(inc) == { <<".">> \o inc[k] : k \in 1..Len(inc) }

\* os.makedirs(path, exist_ok=True): the directory and its ancestors
make_dirs(p) ==
    LET segs == SplitSegs(p)
    IN  { JoinSegs(SubSeq(segs, 1, k)) : k \in 1..Len(segs) }

\* the command lines tried: every startup input with the smallest run, and
\* every run with the default (absent) cookies
CliInputs ==
    { c \in [url : SeedInputs, cookies : CookieInputs, threads : ThreadInputs,
              depth : DepthInputs, follow : BOOLEAN, include : IncludeInputs,
              max_size : MaxSizeInputs] :
        \/ c.cookies = NoArg /\ c.url = SeedOk
        \/ c.threads = 1 /\ c.depth = 0 /\ ~ c.follow /\ c.include = <<>> }

\* the one-page sites are run with one worker and depth 0 only
SmallRun(c) ==
    c.url = SeedOk /\ c.cookies = NoArg /\ c.threads = 1 /\ c.depth = 0

\* before main() has done anything
Idle ==
    /\ mainpc = "start"
    /\ started = 0
    /\ stopsPut = 0
    /\ visited = {}
    /\ stack = <<>>
    /\ queue = <<>>
    /\ unfinished = 0
    /\ wpc = [w \in Workers |-> "unborn"]
    /\ wtask = [w \in Workers |-> None]
    /\ wsize = [w \in Workers |-> 0]
    /\ fs = <<>>
    /\ dirs = {}
    /\ tasks = <<>>
    /\ fetchLog = <<>>
    /\ saveLog = <<>>
    /\ stopsGot = [w \in Workers |-> 0]

Init ==
    /\ cli \in CliInputs
    /\ web \in Sites \cup SmallSites
    /\ web \in SmallSites => SmallRun(cli)
    /\ Idle

\* ------------------------------------------------------------------ main()
\* line 232: "if args.cookies:" is false for an absent and for an empty string
CookiesGiven(c) == c.given /\ c.text # <<>>

\* variant of StartupOutcome: the seed url is not validated
StartupOutcome_nourl(c) ==
    IF CookiesGiven(c.cookies) /\ json_loads(c.cookies.text) = "JSONDecodeError"
    THEN "exited"
    ELSE IF CookiesGiven(c.cookies) /\ json_loads(c.cookies.text) = "other"
    THEN "crashed"
    ELSE "spawn"

\* lines 232-247: the cookies are parsed, then the seed url is validated.
\* "exited": an early return; "crashed": cookies.items() on JSON that is no
\* object raises AttributeError; "spawn": the run goes on
StartupOutcome(c) ==
    IF CookiesGiven(c.cookies) /\ json_loads(c.cookies.text) = "JSONDecodeError"
    THEN "exited"
    ELSE IF CookiesGiven(c.cookies) /\ json_loads(c.cookies.text) = "other"
    THEN "crashed"
    ELSE IF ~ is_valid_url(c.url) THEN "exited"
    ELSE "spawn"

\* lines 232-252 up to make_dirs(args.dir) and visited = set()
MainStart ==
    /\ mainpc = "start"
    /\ mainpc' = StartupOutcome(cli)
    /\ dirs' = IF StartupOutcome(cli) = "spawn" THEN dirs \cup make_dirs(SaveDir) ELSE dirs
    /\ UNCHANGED <<envVars, started, stopsPut, travVars, queueVars, workerVars, fs>>

\* lines 256-259: thread.start()
MainStartThread ==
    /\ mainpc = "spawn"
    /\ started < cli.threads
    /\ started' = started + 1
    /\ wpc' = [wpc EXCEPT ![started + 1] = "get"]
    /\ UNCHANGED <<envVars, mainpc, stopsPut, travVars, queueVars, wtask, wsize,
                   stopsGot, diskVars>>

\* a fresh call of parse_and_download; acts records, per element of the
\* page, what the loop did with it
Frame(url, depth) ==
    [url |-> url, depth |-> depth, pc |-> "enter", doc |-> <<>>, i |-> 1,
     save_path |-> <<>>, acts |-> <<>>]

\* line 261: the call of parse_and_download on the seed at depth 0
MainCall ==
    /\ mainpc = "spawn"
    /\ started = cli.threads
    /\ mainpc' = "traverse"
    /\ stack' = <<Frame(cli.url, 0)>>
    /\ UNCHANGED <<envVars, started, stopsPut, visited, fetchLog, saveLog,
                   queueVars, workerVars, diskVars>>

\* variant of JoinReturns: the barrier does not wait
JoinReturns_nowait(n) == TRUE

\* line 264: download_queue.join() returns when no task is unfinished
JoinReturns(n) == n = 0

MainJoin ==
    /\ mainpc = "join"
    /\ JoinReturns(unfinished)
    /\ mainpc' = "stop"
    /\ UNCHANGED <<envVars, started, stopsPut, travVars, queueVars, workerVars,
                   diskVars>>

\* variant of PutReady: the queue holds one item at most
PutReady_bounded(q) == Len(q) < 1

\* line 31: Queue() has no maxsize, so put() never waits for room
PutReady(q) == TRUE

\* lines 267-268: download_queue.put(None), once per thread
MainPutStop ==
    /\ mainpc = "stop"
    /\ stopsPut < cli.threads
    /\ PutReady(queue)
    /\ queue' = Append(queue, None)
    /\ unfinished' = unfinished + 1
    /\ stopsPut' = stopsPut + 1
    /\ mainpc' = IF stopsPut + 1 = cli.threads THEN "threadjoin" ELSE "stop"
    /\ UNCHANGED <<envVars, started, travVars, tasks, workerVars, diskVars>>

\* lines 269-270: thread.join() on every worker
MainThreadJoin ==
    /\ mainpc = "threadjoin"
    /\ \A w \in 1..cli.threads : wpc[w] \in Terminated
    /\ mainpc' = "done"
    /\ UNCHANGED <<envVars, started, stopsPut, travVars, queueVars, workerVars,
                   diskVars>>

\* ------------------------------------------------------- download_worker()
SetTask(id, st) == [tasks EXCEPT ![id].state = st]

\* unpacking "url, save_path = item": only a pair unpacks; None raises
\* TypeError, which nothing in the thread catches
Unpacks(item) == item.kind = "tuple"

\* line 87: url, save_path = download_queue.get()
WorkerGet(w) ==
    /\ wpc[w] = "get"
    /\ queue # <<>>
    /\ queue' = Tail(queue)
    /\ IF Unpacks(Head(queue))
       THEN /\ wtask' = [wtask EXCEPT ![w] = Head(queue)]
            /\ wpc' = [wpc EXCEPT ![w] = "request"]
            /\ tasks' = SetTask(Head(queue).id, "Running")
            /\ UNCHANGED stopsGot
       ELSE /\ wpc' = [wpc EXCEPT ![w] = "raised"]
            /\ stopsGot' = [stopsGot EXCEPT ![w] = @ + 1]
            /\ UNCHANGED <<wtask, tasks>>
    /\ UNCHANGED <<envVars, mainVars, travVars, unfinished, wsize, diskVars>>

\* variant of TooBig: the limit is taken in GiB
TooBig_gib(total_size, max_size) == total_size > max_size * 1024 * 1024 * 1024

\* line 63: total_size > max_size * 1024 * 1024
TooBig(total_size, max_size) == total_size > max_size * 1024 * 1024

\* variant of Catches: save_file has no handler
Catches_none(exc) == FALSE

\* line 80: the only handler of save_file is "except RequestException"
Catches(exc) == exc = "RequestException"

\* an exception inside save_file: caught, the task is Failed and the worker
\* goes on to task_done; not caught, it ends the thread
WorkerRaise(w, exc) ==
    IF Catches(exc)
    THEN /\ tasks' = [tasks EXCEPT ![wtask[w].id].state = "Failed",
                                     ![wtask[w].id].exc = exc]
         /\ wpc' = [wpc EXCEPT ![w] = "task_done"]
    ELSE /\ tasks' = [tasks EXCEPT ![wtask[w].id].state = "Raised",
                                     ![wtask[w].id].exc = exc]
         /\ wpc' = [wpc EXCEPT ![w] = "raised"]

WriteFile(path, st) ==
    [p \in DOMAIN fs \cup {path} |-> IF p = path THEN st ELSE fs[p]]

\* save_file lines 59-68: the request, its status, the declared length, and
\* the open of the file.  The server answers with a transport or HTTP error
\* (RequestException) or with a declared length (0 when the header is
\* absent); open(sanitize_filename(save_path), 'wb') creates or truncates
\* the file, or raises OSError.
WorkerRequest(w) ==
    /\ wpc[w] = "request"
    /\ \/ /\ WorkerRaise(w, "RequestException")
          /\ UNCHANGED <<wsize, fs>>
       \/ \E total_size \in ContentLengths :
             IF TooBig(total_size, cli.max_size)
             THEN /\ wsize' = [wsize EXCEPT ![w] = total_size]
                  /\ tasks' = SetTask(wtask[w].id, "Skipped")
                  /\ wpc' = [wpc EXCEPT ![w] = "task_done"]
                  /\ UNCHANGED fs
             ELSE \/ /\ wsize' = [wsize EXCEPT ![w] = total_size]
                     /\ fs' = WriteFile(sanitize_filename(wtask[w].save_path), "partial")
                     /\ wpc' = [wpc EXCEPT ![w] = "stream"]
                     /\ UNCHANGED tasks
                  \/ /\ WorkerRaise(w, "OSError")
                     /\ UNCHANGED <<wsize, fs>>
    /\ UNCHANGED <<envVars, mainVars, travVars, queue, unfinished, wtask, stopsGot,
                   dirs>>

\* save_file lines 75-82: the body is streamed to the file; iter_content may
\* raise a RequestException, file.write an OSError
WorkerStream(w) ==
    /\ wpc[w] = "stream"
    /\ wsize' = [wsize EXCEPT ![w] = 0]
    /\ \/ /\ fs' = WriteFile(sanitize_filename(wtask[w].save_path), "complete")
          /\ tasks' = SetTask(wtask[w].id, "Saved")
          /\ wpc' = [wpc EXCEPT ![w] = "task_done"]
       \/ /\ \E exc \in {"RequestException", "OSError"} : WorkerRaise(w, exc)
          /\ UNCHANGED fs
    /\ UNCHANGED <<envVars, mainVars, travVars, queue, unfinished, wtask,
                   stopsGot, dirs>>

\* line 91: download_queue.task_done()
WorkerTaskDone(w) ==
    /\ wpc[w] = "task_done"
    /\ unfinished' = unfinished - 1
    /\ wpc' = [wpc EXCEPT ![w] = "get"]
    /\ wtask' = [wtask EXCEPT ![w] = None]
    /\ wsize' = [wsize EXCEPT ![w] = 0]
    /\ UNCHANGED <<envVars, mainVars, travVars, queue, tasks, stopsGot, diskVars>>

\* ---------------------------------------------------- parse_and_download()
Top == stack[Len(stack)]
SetTop(f) == [stack EXCEPT ![Len(stack)] = f]

\* a return of the innermost call; the return of the outermost one brings
\* main() to download_queue.join()
Return ==
    /\ stack' = SubSeq(stack, 1, Len(stack) - 1)
    /\ mainpc' = IF Len(stack) = 1 THEN "join" ELSE mainpc

IndexHtml == <<"index", ".", "html">>

\* lines 106-111: the path of the page with the directory index default
PagePath(url) ==
    LET path == urlparse(url).path
    IN  IF EndsWithSlash(path) THEN path \o IndexHtml
        ELSE IF splitext_ext(path) = <<>> THEN path \o <<"/">> \o IndexHtml
        ELSE path

\* line 113
PageSavePath(url) == path_join(SaveDir, LStripSlash(PagePath(url)))

\* line 141
ResourcePath(resource_url) ==
    path_join(SaveDir, sanitize_filename(LStripSlash(urlparse(resource_url).path)))

\* variant of DepthExceeded: the bound is taken one level too deep
DepthExceeded_off(current_depth, max_depth) == current_depth > max_depth + 1

\* line 95: if current_depth > max_depth: return
DepthExceeded(current_depth, max_depth) == current_depth > max_depth

\* variant of VisitedAdd: the url is not recorded
VisitedAdd_none(vis, url) == vis

\* line 100: visited.add(url)
VisitedAdd(vis, url) == vis \cup {url}

\* lines 95-100: the depth bound and the visited set
PdEnter ==
    /\ mainpc = "traverse"
    /\ stack # <<>>
    /\ Top.pc = "enter"
    /\ IF DepthExceeded(Top.depth, cli.depth) \/ Top.url \in visited
       THEN /\ Return
            /\ UNCHANGED visited
       ELSE /\ visited' = VisitedAdd(visited, Top.url)
            /\ stack' = SetTop([Top EXCEPT !.pc = "fetch"])
            /\ UNCHANGED mainpc
    /\ UNCHANGED <<envVars, started, stopsPut, fetchLog, saveLog, queueVars,
                   workerVars, diskVars>>

\* lines 102-116: get_page returns None on a RequestException (always
\* possible, the only answer for a url the site does not serve); otherwise
\* the save path is computed, its directory made and the body parsed
PdFetch ==
    /\ mainpc = "traverse"
    /\ stack # <<>>
    /\ Top.pc = "fetch"
    /\ \/ /\ fetchLog' = Append(fetchLog, [url |-> Top.url, depth |-> Top.depth,
                                           ok |-> FALSE])
          /\ Return
          /\ UNCHANGED dirs
       \/ /\ Top.url \in DOMAIN web
          /\ fetchLog' = Append(fetchLog, [url |-> Top.url, depth |-> Top.depth,
                                           ok |-> TRUE])
          /\ stack' = SetTop([Top EXCEPT !.pc = "loop",
                                         !.doc = web[Top.url],
                                         !.i = 1,
                                         !.acts = [k \in 1..Len(web[Top.url]) |-> "none"],
                                         !.save_path = PageSavePath(Top.url)])
          /\ dirs' = dirs \cup make_dirs(path_dirname(PageSavePath(Top.url)))
          /\ UNCHANGED mainpc
    /\ UNCHANGED <<envVars, started, stopsPut, visited, saveLog, queueVars,
                   workerVars, fs>>

\* line 130: src = resource.get(attr); None when the element lacks attr
GetAttr(e) == IF e.name = TagAttr(e.tag) THEN e.val ELSE <<>>

\* variant of HasNoFollow: rel is not looked at
HasNoFollow_never(e) == FALSE

\* line 131: 'nofollow' in resource.attrs.get('rel', [])
HasNoFollow(e) == \E k \in 1..Len(e.rel) : e.rel[k] = "nofollow"

\* line 135
ResourceExt(resource_url) == LowerStr(splitext_ext(urlparse(resource_url).path))

\* variant of Accepted: the allow-list is not consulted
Accepted_noallow(url, e, include_types) ==
    LET ext == ResourceExt(urljoin(url, GetAttr(e)))
    IN  /\ GetAttr(e) # <<>>
        /\ ~ HasNoFollow(e)
        /\ (ext \in RESOURCE_TYPES \/ e.tag = "a")

\* lines 131-140: the element gets past the "continue"s and the test of
\* line 140, so that its directory is made (lines 141-142)
Accepted(url, e, include_types) ==
    LET ext == ResourceExt(urljoin(url, GetAttr(e)))
    IN  /\ GetAttr(e) # <<>>
        /\ ~ HasNoFollow(e)
        /\ (include_types = {} \/ ext \in include_types)
        /\ (ext \in RESOURCE_TYPES \/ e.tag = "a")

\* lines 131-150: what the loop body does with one element of the page at
\* url: "skip", "enqueue" (queue put and rewrite) or "recurse"
RefAction(url, e, vis, include_types, follow_redirects) ==
    LET resource_url == urljoin(url, GetAttr(e))
        ext          == ResourceExt(resource_url)
    IN  IF ~ Accepted(url, e, include_types) THEN "skip"
        ELSE IF ~ (is_valid_url(resource_url) /\ resource_url \notin vis) THEN "skip"
        ELSE IF ext \in RESOURCE_TYPES THEN "enqueue"
        ELSE IF e.tag = "a" /\ follow_redirects THEN "recurse"
        ELSE "skip"

\* lines 147-148: the rewritten attribute value
Rewritten(resource_path, save_path) ==
    BackslashToSlash(path_relpath(resource_path, path_dirname(save_path)))

\* lines 128-150: one iteration of the double loop over the elements
PdRef ==
    /\ mainpc = "traverse"
    /\ stack # <<>>
    /\ Top.pc = "loop"
    /\ Top.i <= Len(IterOrder(Top.doc))
    /\ LET k   == IterOrder(Top.doc)[Top.i]
           e   == Top.doc[k]
           act == RefAction(Top.url, e, visited, IncludeTypes(cli.include), cli.follow)
           resource_url  == urljoin(Top.url, GetAttr(e))
           resource_path == ResourcePath(resource_url)
           next == [Top EXCEPT !.i = @ + 1, !.acts[k] = act]
       IN  /\ dirs' = IF Accepted(Top.url, e, IncludeTypes(cli.include))
                      THEN dirs \cup make_dirs(path_dirname(resource_path))
                      ELSE dirs
           /\ CASE act = "enqueue" ->
                     /\ PutReady(queue)
                     /\ queue' = Append(queue,
                                   Task(Len(tasks) + 1, resource_url, resource_path))
                     /\ unfinished' = unfinished + 1
                     /\ tasks' = Append(tasks, [url |-> resource_url,
                                                save_path |-> resource_path,
                                                state |-> "Queued",
                                                exc |-> "none"])
                     /\ stack' = SetTop([next EXCEPT
                                   !.doc[k].val = Rewritten(resource_path, Top.save_path)])
                [] act = "recurse" ->
                     /\ stack' = Append(SetTop(next), Frame(resource_url, Top.depth + 1))
                     /\ UNCHANGED <<queue, unfinished, tasks>>
                [] OTHER ->
                     /\ stack' = SetTop(next)
                     /\ UNCHANGED <<queue, unfinished, tasks>>
    /\ UNCHANGED <<envVars, mainVars, visited, fetchLog, saveLog, workerVars, fs>>

\* variant of LoopDone: the page may be written before the loops have ended
LoopDone_early(f) == TRUE

\* line 152 is reached when both loops of lines 128-129 have run out
LoopDone(f) == f.i > Len(IterOrder(f.doc))

\* lines 152-157: the page is written to sanitize_filename(save_path); an
\* OSError from open or write is caught nowhere: it unwinds every call of
\* parse_and_download and main(), and ends the control thread
PdSave ==
    /\ mainpc = "traverse"
    /\ stack # <<>>
    /\ Top.pc = "loop"
    /\ LoopDone(Top)
    /\ \/ /\ fs' = WriteFile(sanitize_filename(Top.save_path), "complete")
          /\ saveLog' = Append(saveLog, [url |-> Top.url,
                                          path |-> sanitize_filename(Top.save_path)])
          /\ Return
       \/ /\ stack' = <<>>
          /\ mainpc' = "unwound"
          /\ UNCHANGED <<fs, saveLog>>
    /\ UNCHANGED <<envVars, started, stopsPut, visited, fetchLog, queueVars,
                   workerVars, dirs>>

\* ------------------------------------------------------- the specification
\* the steps of the control thread
MainNext ==
    \/ MainStart
    \/ MainStartThread
    \/ MainCall
    \/ PdEnter
    \/ PdFetch
    \/ PdRef
    \/ PdSave
    \/ MainJoin
    \/ MainPutStop
    \/ MainThreadJoin

\* the steps of worker thread w
WorkerNext(w) ==
    \/ WorkerGet(w)
    \/ WorkerRequest(w)
    \/ WorkerStream(w)
    \/ WorkerTaskDone(w)

Next ==
    \/ MainStart
    \/ MainStartThread
    \/ MainCall
    \/ PdEnter
    \/ PdFetch
    \/ PdRef
    \/ PdSave
    \/ MainJoin
    \/ MainPutStop
    \/ MainThreadJoin
    \/ \E w \in Workers : WorkerGet(w)
    \/ \E w \in Workers : WorkerRequest(w)
    \/ \E w \in Workers : WorkerStream(w)
    \/ \E w \in Workers : WorkerTaskDone(w)

Spec == Init /\ [][Next]_vars

\* runs with following on and no allow-list, for every thread count and
\* depth
FairInit ==
    /\ cli \in {c \in CliInputs : /\ c.url = SeedOk /\ c.cookies = NoArg
                                  /\ c.follow /\ c.include = <<>>}
    /\ web \in Sites
    /\ Idle

\* runs one level deeper than DepthInputs go, with one worker and following
\* on, on the sites whose page D is two anchors away from the seed
DeepInit ==
    /\ cli = [url |-> SeedOk, cookies |-> NoArg, threads |-> 1,
              depth |-> MaxDepth + 1, follow |-> TRUE, include |-> <<>>,
              max_size |-> 1]
    /\ web \in {SiteD, SiteDRev}
    /\ Idle

DeepSpec == DeepInit /\ [][Next]_vars

\* the loop over the elements can take its next step: the only call in it
\* that could wait is the put of line 146
PdRefReady ==
    /\ mainpc = "traverse" /\ stack # <<>>
    /\ Top.pc = "loop" /\ ~ LoopDone(Top)
    /\ RefAction(Top.url, Top.doc[IterOrder(Top.doc)[Top.i]], visited,
                 IncludeTypes(cli.include), cli.follow) = "enqueue"
          => PutReady(queue)

\* the control thread can take a step
MainCanStep ==
    \/ PdRefReady
    \/ ENABLED (MainStart \/ MainStartThread \/ MainCall \/ PdEnter \/ PdFetch
                  \/ PdSave \/ MainJoin \/ MainPutStop \/ MainThreadJoin)

\* every thread that can take a step is scheduled: the control thread and
\* each worker thread are threads of the interpreter, and every call they
\* wait in (a request, a get on a queue that has an item) returns.  The
\* weak fairness of the control thread is written out, with MainCanStep for
\* its enabling condition.
FairSpec ==
    /\ FairInit
    /\ [][Next]_vars
    /\ ([]<>(~ MainCanStep) \/ []<><<MainNext>>_vars)
    /\ \A w \in Workers : WF_vars(WorkerNext(w))

\* ------------------------------------------------------------------ claims
Frames == {stack[n] : n \in 1..Len(stack)}
TaskIds == 1..Len(tasks)
Fetches == 1..Len(fetchLog)
Finished == {"Saved", "Skipped", "Failed"}
PastTraversal == {"join", "stop", "threadjoin", "done"}

\* the url an element of the page of frame f refers to (anchors are never
\* rewritten, so their value is the one the site served)
RefUrl(f, k) == urljoin(f.url, GetAttr(f.doc[k]))

\* C1: a url's page fetch is started at most once; the url is in the visited
\* set when its fetch starts and stays there (the visited set never
\* shrinks), so a page whose fetch failed is not fetched again.
C1_State ==
    /\ \A i, j \in Fetches : fetchLog[i].url = fetchLog[j].url => i = j
    /\ \A i \in Fetches : fetchLog[i].url \in visited
    /\ \A f \in Frames : f.pc = "fetch" => f.url \in visited

C1_FetchedAtMostOnce == []C1_State /\ [][visited \subseteq visited']_vars

\* C1 witness: a page whose fetch failed has been referenced again by a
\* followable anchor of a later page, and the loop has passed that anchor
C1_Witness ==
    /\ cli.follow /\ cli.include = <<>>
    /\ stack # <<>> /\ Top.pc = "loop"
    /\ \E k \in 1..Len(Top.doc) :
          /\ Top.doc[k].tag = "a" /\ ~ HasNoFollow(Top.doc[k])
          /\ Top.acts[k] = "skip"
          /\ \E i \in Fetches : /\ fetchLog[i].url = RefUrl(Top, k)
                                /\ ~ fetchLog[i].ok
                                /\ fetchLog[i].url # Top.url

\* C2: a call with depth > maxDepth fetches nothing, enqueues nothing and
\* writes nothing; with maxDepth = 0 the seed is the only page ever fetched.
C2_State ==
    /\ \A i \in Fetches : fetchLog[i].depth <= cli.depth
    /\ \A f \in Frames : f.pc \in {"fetch", "loop"} => f.depth <= cli.depth
    /\ cli.depth = 0 => \A i \in Fetches : i = 1 /\ fetchLog[i].url = cli.url
    /\ (cli.depth = 0 /\ mainpc \in PastTraversal) => Len(fetchLog) = 1

C2_TooDeepStep ==
    (stack # <<>> /\ Top.pc = "enter" /\ Top.depth > cli.depth /\ stack' # stack)
      => /\ stack' = SubSeq(stack, 1, Len(stack) - 1)
         /\ UNCHANGED <<visited, fetchLog, queue, unfinished, tasks, fs, dirs>>

C2_NoFetchBeyondDepth == []C2_State /\ [][C2_TooDeepStep]_vars

\* C2 witness: with maxDepth = 0 and following on, the seed's loop has made
\* a recursive call for an anchor, and the call has returned without
\* visiting the anchor's url
C2_Witness ==
    /\ cli.depth = 0 /\ cli.follow
    /\ Len(stack) = 1 /\ Top.pc = "loop"
    /\ \E k \in 1..Len(Top.doc) :
          Top.acts[k] = "recurse" /\ RefUrl(Top, k) \notin visited

\* C3: no stop signal is put on the queue while a Download Task is
\* unfinished, no worker takes more than one stop signal, and when main()
\* is done each of the T workers has taken exactly one, T in all.
C3_StopsAfterDrain ==
    /\ stopsPut > 0 => \A id \in TaskIds : tasks[id].state \in Finished
    /\ (\E n \in 1..Len(queue) : queue[n] = None)
          => \A id \in TaskIds : tasks[id].state \in Finished
    /\ \A w \in Workers : stopsGot[w] <= 1
    /\ \A w \in Workers : stopsGot[w] = 1 => w <= cli.threads /\ stopsPut > 0
    /\ mainpc = "done" => /\ stopsPut = cli.threads
                          /\ \A w \in 1..cli.threads : stopsGot[w] = 1
                          /\ queue = <<>>

\* C3 witness: a run of two workers is done after tasks ended in different
\* ways
C3_Witness ==
    /\ mainpc = "done" /\ cli.threads = 2
    /\ Len(tasks) >= 2
    /\ \E a, b \in TaskIds : tasks[a].state = "Saved" /\ tasks[b].state = "Failed"

\* C4: a worker that has taken the stop signal has left its loop by the
\* break of line 89 and returned normally.
C4_StopEndsWorkerNormally ==
    \A w \in Workers : stopsGot[w] > 0 => wpc[w] = "returned"

\* C5: no url is put on the download queue more than once in a run.
C5_EnqueuedAtMostOnce ==
    \A a, b \in TaskIds : tasks[a].url = tasks[b].url => a = b

\* C6: an error while processing one url ends only that task: no worker is
\* ended by it (a worker ends only on a stop signal), no task is left
\* without its task_done, and the recursion is never unwound.
C6_ErrorsContained ==
    /\ mainpc # "unwound"
    /\ \A id \in TaskIds : tasks[id].state # "Raised"
    /\ \A w \in Workers : wpc[w] \in Terminated => stopsGot[w] = 1

\* the file a Download Task is written to (line 67)
TaskFile(id) == sanitize_filename(tasks[id].save_path)

\* Download Tasks that still count for download_queue.join(): not yet
\* taken, being handled, or ended without task_done
Pending ==
    Cardinality({id \in TaskIds : tasks[id].state \in {"Queued", "Running", "Raised"}})
    + Cardinality({w \in Workers : wpc[w] = "task_done"})

TaskDoneStep(w) ==
    (wpc[w] = "task_done" /\ wpc'[w] # "task_done")
      => /\ wpc'[w] = "get"
         /\ unfinished' = unfinished - 1
         /\ tasks' = tasks

\* main() waits in download_queue.join() or in thread.join() and no thread
\* can take a step any more
NoWorkerCanStep ==
    \A w \in Workers :
       \/ wpc[w] \in {"unborn"} \cup Terminated
       \/ wpc[w] = "get" /\ queue = <<>>

Hung ==
    /\ NoWorkerCanStep
    /\ \/ mainpc = "join" /\ unfinished > 0
       \/ mainpc = "threadjoin" /\ \E w \in 1..cli.threads : wpc[w] \notin Terminated

\* C7: a resource fetch that fails (transport error or HTTP error status)
\* ends the task Failed without creating or changing any file; the worker
\* then marks the task done and is back at the queue; a failed task does not
\* count as unfinished, and main() never hangs in a join unless some task
\* ended by an error that is no fetch failure (an uncaught one).
C7_RequestStep(w) ==
    (wpc[w] = "request" /\ tasks'[wtask[w].id].exc = "RequestException")
      => /\ tasks'[wtask[w].id].state = "Failed"
         /\ wpc'[w] = "task_done"
         /\ fs' = fs

C7_State ==
    /\ \A id \in TaskIds :
          tasks[id].exc = "RequestException" => tasks[id].state = "Failed"
    /\ stopsPut = 0 => unfinished = Pending
    /\ Hung => \E id \in TaskIds : tasks[id].exc \notin {"none", "RequestException"}

C8_OversizeStep(w) ==
    (wpc[w] = "request" /\ wsize'[w] > cli.max_size * 1048576)
      => /\ tasks'[wtask[w].id].state = "Skipped"
         /\ wpc'[w] = "task_done"
         /\ fs' = fs

C8_State ==
    /\ \A w \in Workers :
          wpc[w] = "stream" => wsize[w] <= cli.max_size * 1048576
    /\ \A w \in Workers :
          (wpc[w] = "task_done" /\ tasks[wtask[w].id].state = "Skipped")
            => wsize[w] > cli.max_size * 1048576
    /\ \A id \in TaskIds :
          (tasks[id].state = "Skipped"
             /\ \A o \in TaskIds : TaskFile(o) = TaskFile(id) => tasks[o].state = "Skipped")
            => TaskFile(id) \notin DOMAIN fs
    /\ stopsPut = 0 =>
          unfinished >= Cardinality({w \in Workers :
                wpc[w] = "task_done" /\ tasks[wtask[w].id].state = "Skipped"})

C8_OversizeIsSkipped ==
    /\ []C8_State
    /\ [][\A w \in Workers : C8_OversizeStep(w)
             /\ ((wpc[w] = "task_done" /\ wpc'[w] # "task_done")
                   => unfinished' = unfinished - 1 /\ wpc'[w] = "get")]_vars

\* C8 witness: a run is done in which a task was Skipped and left no file
C8_Witness ==
    /\ mainpc = "done"
    /\ \E id \in TaskIds : tasks[id].state = "Skipped" /\ TaskFile(id) \notin DOMAIN fs

\* no worker started, nothing fetched, enqueued or written
NoWork ==
    /\ mainpc \in {"start", "exited", "crashed"}
    /\ started = 0
    /\ \A w \in Workers : wpc[w] = "unborn"
    /\ stack = <<>> /\ visited = {} /\ fetchLog = <<>>
    /\ queue = <<>> /\ unfinished = 0 /\ tasks = <<>>
    /\ fs = <<>> /\ dirs = {}

SeedInvalid == urlparse(cli.url).scheme = "" \/ urlparse(cli.url).netloc = <<>>

\* C9 as stated: if the seed url lacks a scheme or a host, or the cookie
\* string is not valid JSON, the run ends at startup without any work.
C9_AsStated ==
    (SeedInvalid
       \/ (cli.cookies.given /\ json_loads(cli.cookies.text) = "JSONDecodeError"))
      => NoWork

\* C9 amended: if the seed url lacks a scheme or a host, or the cookie
\* string is not empty and is not valid JSON, the run ends at startup
\* without any work.
C9_NoWorkOnBadStartup ==
    (SeedInvalid
       \/ (cli.cookies.given /\ cli.cookies.text # <<>>
             /\ json_loads(cli.cookies.text) = "JSONDecodeError"))
      => NoWork

\* C9 witness: main() has returned at startup for a seed without a host
C9_Witness ==
    /\ mainpc = "exited"
    /\ cli.url = SeedNoHost
    /\ cli.cookies = NoArg

\* every page url paired with the value of each attribute found on it, over
\* all the sites explored
PageRefs ==
    UNION { UNION { { <<u, s[u][k].val>> : k \in 1..Len(s[u]) } : u \in DOMAIN s } :
            s \in Sites \cup SmallSites \cup {SiteD, SiteDRev} }

\* line 133 on each such pair: the reference resolved against its page
Resolved == [p \in PageRefs |-> urljoin(p[1], p[2])]

\* lines 134-135 and 144 on each resolved url: its lower-cased extension,
\* whether is_valid_url accepts it, and the path of line 141
Parsed ==
    [r \in {Resolved[p] : p \in PageRefs} |->
        [ext |-> ResourceExt(r), valid |-> is_valid_url(r), path |-> ResourcePath(r)]]

\* C10: an anchor is recursed into only with following on and no nofollow
\* on it; an anchor marked nofollow is skipped and left as it was; with
\* following off no call is ever nested; an image of the same page (source
\* present, resource extension, no allow-list) is enqueued and rewritten.
C10_Element(f, k) ==
    LET e    == f.doc[k]
        orig == web[f.url][k]
        marked == \E j \in 1..Len(orig.rel) : orig.rel[j] = "nofollow"
        resource_url == Resolved[<<f.url, orig.val>>]
    IN  /\ f.acts[k] = "recurse" => cli.follow /\ e.tag = "a" /\ ~ marked
        /\ (e.tag = "a" /\ marked) => f.acts[k] \in {"none", "skip"} /\ e = orig
        /\ (e.tag = "img" /\ f.acts[k] # "none" /\ e.name = "src" /\ ~ marked
              /\ cli.include = <<>>
              /\ Parsed[resource_url].ext \in RESOURCE_TYPES)
             => /\ f.acts[k] = "enqueue"
                /\ e.val = Rewritten(Parsed[resource_url].path, f.save_path)
                /\ \E id \in TaskIds : tasks[id].url = resource_url

C10_FollowOnlyUnmarkedAnchors ==
    /\ \A f \in Frames : f.pc = "loop" => \A k \in 1..Len(f.doc) : C10_Element(f, k)
    /\ \A n \in 2..Len(stack) :
          \E k \in 1..Len(stack[n-1].doc) :
             stack[n-1].acts[k] = "recurse" /\ RefUrl(stack[n-1], k) = stack[n].url
    /\ ~ cli.follow => Len(stack) <= 1 /\ \A i \in Fetches : fetchLog[i].url = cli.url

\* C10 witness: with following on, a page's loop has skipped its nofollow
\* anchor, enqueued its image and recursed into an unmarked anchor
C10_Witness ==
    /\ cli.follow
    /\ \E f \in Frames :
          /\ f.pc = "loop"
          /\ \E a, b, c \in 1..Len(f.doc) :
                /\ f.doc[a].tag = "a" /\ f.doc[a].rel = NoFollow /\ f.acts[a] = "skip"
                /\ f.doc[b].tag = "img" /\ f.acts[b] = "enqueue"
                /\ f.doc[c].tag = "a" /\ f.acts[c] = "recurse"

\* the page at url has an image whose url ends in .ext
HasImage(url, ext) ==
    \E k \in 1..Len(web[url]) :
       /\ web[url][k].tag = "img" /\ web[url][k].name = "src"
       /\ splitext_ext(urlparse(urljoin(url, web[url][k].val)).path) = <<".", ext>>

\* C11: started with --include-types .jpg, on a page with a .jpg and a .png
\* image the loop enqueues and rewrites the .jpg reference, and it neither
\* enqueues nor rewrites the .png reference.
C11_OnlyJpgEnqueued ==
    cli.include = << <<".", "jpg">> >> =>
      \A f \in Frames : (f.pc = "loop" /\ HasImage(f.url, "jpg") /\ HasImage(f.url, "png")) =>
        \A k \in 1..Len(f.doc) :
           LET orig == web[f.url][k]
               resource_url == urljoin(f.url, orig.val)
           IN  (f.acts[k] # "none" /\ orig.tag = "img" /\ orig.name = "src"
                  /\ ~ HasNoFollow(orig))
                 => /\ ResourceExt(resource_url) = <<".", "jpg">>
                         => /\ f.acts[k] = "enqueue"
                            /\ f.doc[k].val = Rewritten(ResourcePath(resource_url),
                                                        f.save_path)
                            /\ \E id \in TaskIds : tasks[id].url = resource_url
                    /\ ResourceExt(resource_url) = <<".", "png">>
                         => /\ f.acts[k] = "skip"
                            /\ f.doc[k].val = orig.val
                            /\ \A id \in TaskIds : tasks[id].url # resource_url

\* the classifier as the claim words it, on the lower-cased extension: a
\* nofollow marker rejects on the tags in markedTags only
Classifier(tag, ext, allow, marked, markedTags) ==
    IF marked /\ tag \in markedTags THEN "Reject"
    ELSE IF allow # {} /\ ext \notin allow THEN "Reject"
    ELSE IF ext \in RESOURCE_TYPES THEN "Resource"
    ELSE IF tag = "a" THEN "Link"
    ELSE "Reject"

\* what the traversal does on a decision: a Resource is enqueued, a Link is
\* recursed into when following is on, nothing is done otherwise
ActionOf(class, follow) ==
    CASE class = "Resource" -> "enqueue"
      [] class = "Link" /\ follow -> "recurse"
      [] OTHER -> "skip"

AllTags == {TagOrder[t] : t \in 1..Len(TagOrder)}

\* every element the loops have passed, whose attribute is present and whose
\* url is valid and was not visited, got the action of its class
DecisionsFollow(markedTags) ==
    \A f \in Frames : f.pc = "loop" =>
      \A k \in 1..Len(f.doc) :
         LET orig == web[f.url][k]
             resource_url == Resolved[<<f.url, orig.val>>]
         IN  (f.acts[k] # "none" /\ orig.name = TagAttr(orig.tag) /\ orig.val # <<>>
                /\ Parsed[resource_url].valid
                /\ (resource_url \notin visited \/ f.acts[k] = "recurse"))
               => f.acts[k] = ActionOf(Classifier(orig.tag, Parsed[resource_url].ext,
                                                   IncludeTypes(cli.include),
                                                   HasNoFollow(orig), markedTags),
                                        cli.follow)

\* C12 as stated: the traversal's decision is: reject if an allow-list is
\* configured and the extension is not in it; otherwise Resource if the
\* extension is a built-in resource extension; otherwise Link if the tag is
\* an anchor; otherwise reject; a nofollow marker forces rejection only when
\* it is on an anchor.
C12_AsStated == DecisionsFollow({"a"})

\* C12 amended: the same classifier, but a nofollow marker forces rejection
\* on every tag, not only on an anchor.
C12_ClassifierWithNoFollowOnAnyTag == DecisionsFollow(AllTags)

\* C12 witness: with no allow-list, the loop has rejected a link element
\* that carries the nofollow marker and has a resource extension
C12_Witness ==
    /\ cli.include = <<>>
    /\ \E f \in Frames :
          /\ f.pc = "loop"
          /\ \E k \in 1..Len(f.doc) :
                /\ f.doc[k].tag = "link" /\ HasNoFollow(f.doc[k])
                /\ ResourceExt(urljoin(f.url, web[f.url][k].val)) \in RESOURCE_TYPES
                /\ f.acts[k] = "skip"

Saves == 1..Len(saveLog)

\* the place the claim gives a page: the output root, then the segments of
\* the url's path, then index.html when the path ends in '/' or its last
\* segment has no extension
MirrorSegs(url) ==
    LET path == urlparse(url).path
    IN  <<SaveDir>> \o SplitSegs(path)
          \o (IF EndsWithSlash(path) \/ splitext_ext(path) = <<>>
              THEN <<IndexHtml>> ELSE <<>>)

UnderRoot(p) ==
    /\ Len(p) > Len(SaveDir) + 1
    /\ SubSeq(p, 1, Len(SaveDir) + 1) = SaveDir \o <<"/">>

\* C13: the file a fetched page is written to lies under the output root
\* and mirrors the url's path, directory separators unaltered: index.html
\* in the directory of the path for a path ending in '/', and
\* <segment>/index.html for a last segment without extension.
C13_PagesMirrorUrlPaths ==
    \A n \in Saves :
       /\ UnderRoot(saveLog[n].path)
       /\ saveLog[n].path = JoinSegs(MirrorSegs(saveLog[n].url))
       /\ saveLog[n].path \in DOMAIN fs

\* path segments with "." dropped and ".." taking back the segment before it
RECURSIVE NormSegs(_, _)
NormSegs(acc, segs) ==
    IF segs = <<>> THEN acc
    ELSE IF Head(segs) = <<".">> THEN NormSegs(acc, Tail(segs))
    ELSE IF Head(segs) = <<".", ".">> /\ acc # <<>> /\ acc[Len(acc)] # <<".", ".">>
         THEN NormSegs(SubSeq(acc, 1, Len(acc) - 1), Tail(segs))
    ELSE NormSegs(Append(acc, Head(segs)), Tail(segs))

\* the file a relative reference names when resolved from directory dir
ResolveFrom(dir, rel) == JoinSegs(NormSegs(<<>>, SplitSegs(dir) \o SplitSegs(rel)))

\* C14: the rewritten value of every reference accepted for download is a
\* forward-slash relative path, and resolved from the directory of the file
\* the referencing page is written to it names the file the worker writes
\* the resource to.
C14_RewrittenResolvesToFile ==
    \A f \in Frames : f.pc = "loop" =>
      \A k \in 1..Len(f.doc) : f.acts[k] = "enqueue" =>
         LET val == f.doc[k].val
             resource_url == urljoin(f.url, web[f.url][k].val)
             page_file == sanitize_filename(f.save_path)
         IN  /\ val # <<>> /\ val[1] # "/"
             /\ \A i \in 1..Len(val) : val[i] # "\\"
             /\ \E id \in TaskIds :
                   /\ tasks[id].url = resource_url
                   /\ TaskFile(id) = ResolveFrom(path_dirname(page_file), val)

\* C15: only same-site links are followed: every page that is fetched is on
\* the host of the seed url, and no call of parse_and_download gets past
\* its entry tests for a url on another host.
C15_SameHostOnly ==
    /\ \A i \in Fetches :
          urlparse(fetchLog[i].url).netloc = urlparse(cli.url).netloc
    /\ \A f \in Frames :
          f.pc \in {"fetch", "loop"} => urlparse(f.url).netloc = urlparse(cli.url).netloc

SavedUrls == {saveLog[n].url : n \in Saves}

FetchedOk(url) == \E i \in Fetches : fetchLog[i].url = url /\ fetchLog[i].ok

\* a step that writes a page: the page is the one of the innermost call,
\* every element of it has been dealt with, every call made for one of its
\* anchors has returned, and the pages those calls fetched are written
C16_SaveStep ==
    (saveLog' # saveLog) =>
       /\ stack # <<>> /\ Top.pc = "loop"
       /\ saveLog' = Append(saveLog, [url |-> Top.url,
                                      path |-> sanitize_filename(Top.save_path)])
       /\ \A k \in 1..Len(Top.doc) : Top.acts[k] # "none"
       /\ \A k \in 1..Len(Top.doc) :
             (Top.acts[k] = "recurse" /\ FetchedOk(RefUrl(Top, k)))
               => RefUrl(Top, k) \in SavedUrls
       /\ stack' = SubSeq(stack, 1, Len(stack) - 1)
       /\ sanitize_filename(Top.save_path) \in DOMAIN fs'
       /\ fs'[sanitize_filename(Top.save_path)] = "complete"

C16_State ==
    /\ \A m, n \in Saves : saveLog[m].url = saveLog[n].url => m = n
    /\ \A n \in Saves : FetchedOk(saveLog[n].url)
    /\ \A i \in Fetches :
          (fetchLog[i].ok /\ mainpc # "unwound"
             /\ \A f \in Frames : f.url # fetchLog[i].url)
            => fetchLog[i].url \in SavedUrls
    /\ \A i \in Fetches :
          ~ fetchLog[i].ok
            => /\ fetchLog[i].url \notin SavedUrls
               /\ \A f \in Frames : f.url = fetchLog[i].url => f.pc \in {"enter", "fetch"}
    /\ \A f \in Frames : f.pc = "loop" => FetchedOk(f.url) /\ f.url \notin SavedUrls

C17_TraversalNeverWaits ==
    /\ mainpc \in {"start", "spawn", "traverse", "stop"} => MainCanStep
    /\ (~ MainCanStep /\ mainpc \notin {"exited", "crashed", "unwound", "done"})
          => /\ mainpc \in {"join", "threadjoin"}
             /\ stack = <<>>

\* C17 witness: the traversal has returned with pages written and several
\* tasks enqueued, while no worker has taken anything from the queue
C17_Witness ==
    /\ mainpc = "join"
    /\ Len(saveLog) >= 2
    /\ Len(tasks) >= 2
    /\ \A id \in TaskIds : tasks[id].state = "Queued"
    /\ Len(queue) = Len(tasks)
    /\ \A w \in 1..cli.threads : wpc[w] = "get"

\* the run has ended: main() has returned from its last thread.join() and
\* every worker thread has exited
RunEnded ==
    /\ mainpc = "done"
    /\ \A w \in 1..cli.threads : wpc[w] \in Terminated

\* C18: with every fetch returning and the threads scheduled fairly, a run
\* that gets past startup ends: the traversal returns, the barrier is
\* passed and all T worker threads have exited.
C18_RunTerminates == (mainpc = "spawn") ~> RunEnded

\* a worker is between open and close of the file of task id
BeingWritten(id) ==
    \E w \in Workers : wpc[w] = "stream" /\ wtask[w].id = id

\* C19: a file is at a Download Task's destination only if that task is
\* being written or has ended Saved: a task that has ended Failed or Skipped
\* has left no file there, complete or partial (unless another task or a
\* page has the same destination and put it there).
C19_NoFileFromFailedTask ==
    \A id \in TaskIds :
       (/\ tasks[id].state \in {"Failed", "Skipped"}
        /\ \A o \in TaskIds \ {id} : TaskFile(o) = TaskFile(id)
              => tasks[o].state \in {"Queued", "Failed", "Skipped"} /\ ~ BeingWritten(o)
        /\ \A n \in Saves : saveLog[n].path # TaskFile(id))
         => TaskFile(id) \notin DOMAIN fs

\* the urls of the pages that the followable anchors of page p lead to
FollowTargets(p) ==
    { u \in DOMAIN web :
        \E k \in 1..Len(web[p]) :
           /\ RefAction(p, web[p][k], {}, IncludeTypes(cli.include), TRUE) = "recurse"
           /\ urljoin(p, GetAttr(web[p][k])) = u }

\* the pages reachable from the pages of S through at most n such anchors
RECURSIVE ReachWithin(_, _)
ReachWithin(S, n) ==
    IF n = 0 THEN S
    ELSE ReachWithin(S \cup UNION {FollowTargets(p) : p \in S}, n - 1)

\* C20: with following on and every fetch succeeding, when the traversal
\* has returned every page within maxDepth followable anchors of the seed
\* has been fetched and written, whatever the order of the anchors.
C20_AllWithinDepthSaved ==
    (/\ mainpc \in PastTraversal
     /\ cli.follow
     /\ \A i \in Fetches : fetchLog[i].ok)
      => \A u \in ReachWithin({cli.url}, cli.depth) :
            FetchedOk(u) /\ u \in SavedUrls

====
